---- MODULE Spec2Model ----
(***************************************************************************)
(* r-git-fu: git status for shell prompts.  A model of one invocation of   *)
(* the tool: the command line, the repositories it reads, the bounded      *)
(* `git fetch` child process, the multi-directory aggregation, and what is *)
(* written to standard output.                                             *)
(***************************************************************************)
EXTENDS Integers, Sequences, FiniteSets, TLC

\* ------------------------------------------------------------------ bounds

\* entries of the parent directory handed to dir-status
MaxDirs == 2
\* largest ahead / behind / dirty count drawn for the rendering functions
MaxCount == 2

\* ------------------------------------------------------- program constants

\* cli.rs: #[arg(short, long, default_value = "2500")] timeout
DefaultTimeout == 2500
\* git2::Oid::zero(), the commit id of the broken sentinel
ZeroOid == 0

\* ------------------------------------------------------------- primitives

None == [tag |-> "None"]
Some(v) == [tag |-> "Some", val |-> v]

Ok(v) == [ok |-> TRUE, val |-> v]
Err(kind) == [ok |-> FALSE, val |-> kind]

Named(name) == [tag |-> "Named", name |-> name]
Detached == [tag |-> "Detached", name |-> ""]

Position(a, b) == [ahead |-> a, behind |-> b]
DirtyState(w, i) == [worktree |-> w, index |-> i]
RemoteStatus(position, refreshed) == [position |-> position, refreshed |-> refreshed]

RepoStatus(branch, dirty, position, head_oid, remote_status) ==
    [branch |-> branch, dirty |-> dirty, position |-> position,
     head_oid |-> head_oid, remote_status |-> remote_status]

\* a sentinel that carries an ordinary commit id
broken_state_nonzero_oid(label) ==
    RepoStatus(Named(label), DirtyState(0, 0), None, 1, None)

broken_state(label) ==
    RepoStatus(Named(label), DirtyState(0, 0), None, ZeroOid, None)

\* ------------------------------------------------- what a directory holds

\* names of the parent's entries; the order of the numbers is the byte order
\* of the names (String::cmp)
Names == 1..MaxDirs

\* ahead/behind pairs and dirty counts of the repositories of a batch
SamplePositions == {Position(0, 0), Position(1, 2)}
SampleDirty == {DirtyState(0, 0), DirtyState(1, 2)}

\* The facts of one directory as the git library reports them:
\*   git       "absent": no .git directory in it; "invalid": a .git directory
\*             that Repository::discover rejects; "repo": a repository
\*   fault     the first library call of get_repo_state that fails:
\*             "head" (repo.head()), "dirty" (repo.statuses()), or "none"
\*   detached  HEAD is not a branch
\*   upstream  the (ahead, behind) of the branch against its configured
\*             upstream, None when branch.upstream() fails
\*   remote    the (ahead, behind) of HEAD against refs/remotes/origin/<branch>
\*             at the time it is looked up, None when the ref does not exist
\* Every repository has a work tree whose path is a string, a HEAD with a
\* target, and a branch with a name: the lookups of these do not fail.
Facts(git, fault, detached, dirty, upstream, remote) ==
    [git |-> git, fault |-> fault, detached |-> detached, dirty |-> dirty,
     head_oid |-> 1, upstream |-> upstream, remote |-> remote]

OptPositions == {None} \cup {Some(p) : p \in SamplePositions}

\* the upstream of a sample branch: none, or one the branch has diverged from
OptUpstreams == {None, Some(Position(1, 2))}

NotRepoFacts ==
    {Facts(g, "none", FALSE, DirtyState(0, 0), None, None) : g \in {"absent", "invalid"}}

\* a branch in every combination of upstream and origin ref, one branch with
\* dirty files, and a detached HEAD clean and dirty
HealthyFacts ==
    {Facts("repo", "none", FALSE, DirtyState(0, 0), u, r) :
        u \in OptUpstreams, r \in OptPositions}
    \cup {Facts("repo", "none", FALSE, DirtyState(1, 2), None, None)}
    \cup {Facts("repo", "none", TRUE, d, None, None) : d \in SampleDirty}

\* an unreadable HEAD says nothing about the branch; a failing status walk
\* leaves the branch facts as they are
FaultyFacts ==
    {Facts("repo", "head", FALSE, DirtyState(0, 0), None, None)}
    \cup {Facts("repo", "dirty", FALSE, DirtyState(0, 0), u, None) :
            u \in OptUpstreams}
    \cup {Facts("repo", "dirty", TRUE, DirtyState(0, 0), None, None)}

DirFacts == NotRepoFacts \cup HealthyFacts \cup FaultyFacts

\* -------------------------------------------------------- git query layer

\* takes any directory that has a .git directory for a repository
gather_git_repo_any_git_dir(e) ==
    IF e.git = "absent" THEN Err("Custom") ELSE Ok(e)

\* leaves the check for .git out and lets discovery walk upward
gather_git_repo_discover_upward(e) ==
    IF e.git = "invalid" THEN Err("Git2Error") ELSE Ok(e)

gather_git_repo(e) ==
    IF e.git = "absent" THEN Err("Custom")
    ELSE IF e.git = "invalid" THEN Err("Git2Error")
    ELSE Ok(e)

get_branch_state(e) == IF e.detached THEN Detached ELSE Named("main")

get_dirty(e) == IF e.fault = "dirty" THEN Err("Git2Error") ELSE Ok(e.dirty)

\* reports (0, 0) for a branch without an upstream
get_position_default_zero(e) ==
    IF e.detached THEN None
    ELSE IF e.upstream = None THEN Some(Position(0, 0))
    ELSE Some(e.upstream.val)

get_position(e) ==
    IF e.detached THEN None
    ELSE IF e.upstream = None THEN None
    ELSE Some(e.upstream.val)

\* launches `git fetch` for every branch, asked for or not
launches_fetch_unasked(e, fetch) == ~e.detached

\* get_remote_status up to its fetch: does it launch `git fetch`?
launches_fetch(e, fetch) == ~e.detached /\ fetch

\* reports refreshed whenever the origin ref exists
get_remote_status_always_refreshed(e, refreshed) ==
    IF e.detached THEN None
    ELSE IF e.remote = None THEN None
    ELSE Some(RemoteStatus(Some(e.remote.val), TRUE))

\* get_remote_status from its fetch on; refreshed is what the fetch returned
\* (FALSE when none was made)
get_remote_status(e, refreshed) ==
    IF e.detached THEN None
    ELSE IF e.remote = None THEN None
    ELSE Some(RemoteStatus(Some(e.remote.val), refreshed))

\* get_repo_state up to the call of get_remote_status:
\* "Err" when a query failed, else whether a fetch child is to be spawned
repo_state_prefix(e, fetch, remote_status) ==
    IF e.fault = "head" THEN "Err"
    ELSE IF ~get_dirty(e).ok THEN "Err"
    ELSE IF remote_status /\ launches_fetch(e, fetch) THEN "Fetch"
    ELSE "NoFetch"

\* get_repo_state's Ok value once the queries and the fetch are through
repo_state_value(e, remote_status, refreshed) ==
    RepoStatus(get_branch_state(e), get_dirty(e).val, get_position(e), e.head_oid,
               IF remote_status THEN get_remote_status(e, refreshed) ELSE None)

\* ------------------------------------------------------------ presentation

\* a piece of text is a sequence of glyphs; a number is one glyph
Tok(g) == [g |-> g, n |-> 0]
Num(k) == [g |-> "num", n |-> k]
\* a span is a text in one colour
Span(text, fg) == [text |-> text, fg |-> fg]

string_markers(pos) ==
    [ahead |-> IF pos.ahead > 0 THEN <<Tok("up"), Num(pos.ahead)>> ELSE << >>,
     behind |-> IF pos.behind > 0 THEN <<Tok("down"), Num(pos.behind)>> ELSE << >>]

branch_name(st, colour_flag) ==
    IF st.branch.tag = "Named"
    THEN Span(<<Tok(st.branch.name)>>, IF colour_flag THEN "magenta" ELSE "plain")
    ELSE Span(<<[g |-> "oid7", n |-> st.head_oid]>>, IF colour_flag THEN "cyan" ELSE "plain")

\* the bracketed remote markers of position_marker
remote_markers(st) ==
    IF st.remote_status = None THEN << >>
    ELSE IF st.remote_status.val.position = None THEN << >>
    ELSE LET remote_position == st.remote_status.val.position.val
             m == string_markers(remote_position)
         IN  IF remote_position.behind > 0 \/ remote_position.ahead > 0
             THEN <<Span(<<Tok("[")>> \o m.ahead \o <<Tok("|")>> \o m.behind \o <<Tok("]")>>,
                         "yellow")>>
             ELSE << >>

position_marker(st) ==
    IF st.position = None THEN << >>
    ELSE LET pos == st.position.val
             m == string_markers(pos)
             a == IF pos.ahead > 0 THEN <<Span(m.ahead, "green")>> ELSE << >>
             b == IF pos.behind > 0
                  THEN (IF a # << >> THEN <<Span(<<Tok(" ")>>, "plain")>> ELSE << >>)
                       \o <<Span(m.behind, "red")>>
                  ELSE << >>
         IN  a \o b \o remote_markers(st)

dirty_marker(st) ==
    IF st.dirty.worktree = 0 /\ st.dirty.index = 0
    THEN <<Span(<<Tok("check")>>, "green")>>
    ELSE <<Span(<<Tok("dot")>>, "red")>>
         \o (IF st.dirty.worktree > 0
             THEN <<Span(<<Num(st.dirty.worktree)>>, "yellow")>> ELSE << >>)
         \o (IF st.dirty.index > 0
             THEN <<Span(<<Tok("+"), Num(st.dirty.index)>>, "yellow")>> ELSE << >>)

\* impl Display for primitives::RepoStatus
Display(st) ==
    LET position_str == position_marker(st)
        dirty == dirty_marker(st)
    IN  <<Span(<<Tok("(")>>, "plain"), branch_name(st, TRUE)>>
        \o (IF position_str # << >> \/ dirty # << >>
            THEN position_str \o <<Span(<<Tok("|")>>, "plain")>> \o dirty
            ELSE << >>)
        \o <<Span(<<Tok(")")>>, "plain")>>

\* the position part of impl Display for core::RepoStatus
core_position(st) ==
    IF st.position = None THEN << >>
    ELSE LET position == st.position.val
             a == IF position.ahead > 0 THEN <<Tok("up"), Num(position.ahead)>> ELSE << >>
             b == IF position.behind > 0
                  THEN (IF a # << >> THEN <<Tok(" ")>> ELSE << >>)
                       \o <<Tok("down"), Num(position.behind)>>
                  ELSE << >>
         IN  IF a \o b = << >> THEN << >> ELSE <<Span(a \o b, "plain")>>

\* the dirty part of impl Display for core::RepoStatus
core_dirty(st) ==
    (IF st.dirty.index > 0
     THEN <<Span(<<Tok("dot"), Num(st.dirty.index)>>, "red")>> ELSE << >>)
    \o (IF st.dirty.worktree > 0
        THEN <<Span(<<Tok("+"), Num(st.dirty.worktree)>>, "blue")>> ELSE << >>)
    \o (IF st.dirty.index = 0 /\ st.dirty.worktree = 0
        THEN <<Span(<<Tok("check")>>, "green")>> ELSE << >>)

\* impl Display for core::RepoStatus
core_Display(st) ==
    LET pos == core_position(st)
        dirty == core_dirty(st)
    IN  <<branch_name(st, TRUE)>>
        \o (IF pos # << >> \/ dirty # << >>
            THEN pos \o <<Span(<<Tok("|")>>, "plain")>> \o dirty
            ELSE << >>)

\* the "↑a↓b" legend of a table cell, empty for no divergence
table_legend(position) ==
    IF position = None THEN << >>
    ELSE IF position.val.ahead > 0 \/ position.val.behind > 0
    THEN <<Tok("up"), Num(position.val.ahead), Tok("down"), Num(position.val.behind)>>
    ELSE << >>

table_dirty_val(st) ==
    IF st.dirty.worktree + st.dirty.index = 0 THEN << >>
    ELSE <<Tok("dot"), Num(st.dirty.worktree), Tok("+"), Num(st.dirty.index)>>

\* the colour of the name and branch cells of a row
row_colour(dirty_empty, position_empty, oid_is_zero) ==
    IF dirty_empty /\ position_empty /\ ~oid_is_zero THEN "white"
    ELSE IF dirty_empty /\ position_empty /\ oid_is_zero THEN "magenta"
    ELSE IF dirty_empty \/ position_empty THEN "yellow"
    ELSE "white"

\* one row of print_repo_table
table_row(name, st) ==
    LET dirty_val == table_dirty_val(st)
        position_val == table_legend(st.position)
        fg == row_colour(dirty_val = << >>, position_val = << >>, st.head_oid = ZeroOid)
    IN  [name |-> Span(<<Num(name)>>, fg),
         branch |-> Span(branch_name(st, FALSE).text, fg),
         dirty |-> Span(dirty_val, "red"),
         position |-> Span(position_val, "green"),
         remote |-> IF st.remote_status = None THEN Span(<< >>, "green")
                    ELSE Span(table_legend(st.remote_status.val.position),
                              IF st.remote_status.val.refreshed THEN "green" ELSE "yellow")]

RECURSIVE sorted_names(_)
\* rows.sort_by(|a, b| a.0.cmp(&b.0)) on the keys of the map
sorted_names(S) ==
    IF S = {} THEN << >>
    ELSE LET m == CHOOSE x \in S : \A y \in S : x <= y
         IN  <<m>> \o sorted_names(S \ {m})

\* the rows in the order b.0.cmp(&a.0) would give: names descending
table_rows_names_descending(results) ==
    LET names == sorted_names(DOMAIN results)
        n == Len(names)
    IN  [i \in 1..n |-> table_row(names[n + 1 - i], results[names[n + 1 - i]])]

\* the rows print_repo_table prints for a map
table_rows(results) ==
    LET names == sorted_names(DOMAIN results)
    IN  [i \in 1..Len(names) |-> table_row(names[i], results[names[i]])]

\* -------------------------------------------------------------- branches

\* largest number of local branches, and the latest commit time
MaxBranches == 2
MaxTime == 2

BranchInfo(name, commit_time) ==
    [name |-> name, commit_time |-> commit_time, iso_date |-> commit_time]

RECURSIVE insert_by_time(_, _)
\* x put behind every element at least as recent: what a stable sort by
\* descending commit_time does with an element pushed onto a sorted vector
insert_by_time(s, x) ==
    IF s = << >> THEN <<x>>
    ELSE IF Head(s).commit_time >= x.commit_time
    THEN <<Head(s)>> \o insert_by_time(Tail(s), x)
    ELSE <<x>> \o s

RECURSIVE sort_by_commit_time(_)
\* branches.sort_by(|a, b| b.commit_time.cmp(&a.commit_time))
sort_by_commit_time(s) ==
    IF s = << >> THEN << >>
    ELSE insert_by_time(sort_by_commit_time(SubSeq(s, 1, Len(s) - 1)), s[Len(s)])

RECURSIVE branch_vec(_)
\* the vector after the loop over repo.branches(): push, then sort, per branch
branch_vec(local) ==
    IF local = << >> THEN << >>
    ELSE sort_by_commit_time(
            Append(branch_vec(SubSeq(local, 1, Len(local) - 1)),
                   BranchInfo(local[Len(local)].name, local[Len(local)].commit_time)))

\* get_branch_info without the sort: the branches as repo.branches() yields them
get_branch_info_enumeration_order(local) ==
    IF local = << >> THEN None
    ELSE Some([i \in 1..Len(local) |-> BranchInfo(local[i].name, local[i].commit_time)])

get_branch_info(local) ==
    IF branch_vec(local) = << >> THEN None ELSE Some(branch_vec(local))

\* the rows of print_branch_table
branch_rows(branch_summary) ==
    [i \in 1..Len(branch_summary) |->
        [iso_date |-> Span(<<Num(branch_summary[i].iso_date)>>, "green"),
         name |-> Span(<<Num(branch_summary[i].name)>>, "white")]]

\* the lines console_dump prints, one per BranchInfo
branch_lines(branch_summary) ==
    [i \in 1..Len(branch_summary) |->
        <<Span(<<Num(branch_summary[i].iso_date)>>, "green"),
          Span(<<Num(branch_summary[i].name)>>, "white")>>]

RECURSIVE BranchSeqs(_)
BranchSeqs(n) ==
    IF n = 0 THEN {<< >>}
    ELSE LET shorter == BranchSeqs(n - 1) IN
         shorter \cup
         {Append(l, [name |-> b, commit_time |-> t]) :
            l \in {s \in shorter : Len(s) = n - 1}, b \in 1..MaxBranches, t \in 0..MaxTime}

\* the local branches of a repository, in the order repo.branches() yields them
LocalBranches ==
    {l \in BranchSeqs(MaxBranches) : \A i, j \in 1..Len(l) : l[i].name = l[j].name => i = j}

\* ------------------------------------------------------- standard output

\* what a write to standard output can come to
WriteOutcomes == {"ok", "BrokenPipe", "Other"}

\* how the process stands after println! met outcome w
println_exit(w) == IF w = "ok" THEN "running" ELSE "panic"

\* how the process stands after safe_println met outcome w
safe_println_exit(w) ==
    IF w = "ok" THEN "running"
    ELSE IF w = "BrokenPipe" THEN "success"
    ELSE "panic"

\* how the process ends when main returns r
main_exit(r) == IF r = "Err" THEN "failure" ELSE "success"

\* ------------------------------------------------------------------ state

VARIABLES
    cmd,                  \* the parsed command line (Cli) and the entry taken
    pc,                   \* where the process is
    entries,              \* what read_dir yielded, in enumeration order
    dirs,                 \* the directories still to be processed
    order,                \* the directories processed, in order
    fs,                   \* the facts of each subdirectory visited
    target,               \* the facts of cli.repo_path, for prompt and branches
    local,                \* the local branches of cli.repo_path
    current_fetch_status, \* get_multi_directory_status's running fetch flag
    status_results,       \* get_multi_directory_status's map
    child,                \* the `git fetch` child process
    trace,                \* what the latest fetch_git_with_timeout call did
    fetches,              \* per directory, how its fetch ended and returned
    result,               \* what get_multi_directory_status returned
    ret,                  \* what the command's function returned
    out,                  \* what was written to standard output
    write_err,            \* the error a write to standard output met
    exit,                 \* how the process ended
    status,               \* a RepoStatus handed to the rendering functions
    shown                 \* what they made of it

vars == <<cmd, pc, entries, dirs, order, fs, target, local, current_fetch_status,
          status_results, child, trace, fetches, result, ret, out, write_err,
          exit, status, shown>>

batch_vars == <<entries, dirs, order, fs, current_fetch_status, status_results,
                child, trace, fetches, result>>

render_vars == <<status, shown>>

Timeouts == {DefaultTimeout, 100}

\* prompt and branches through main.rs (core.rs) or through cli.rs;
\* dir-status through cli.rs
Clis ==
    [entry : {"main", "cli"}, command : {"Prompt"}, fetch : BOOLEAN,
     timeout : Timeouts, remote_status : BOOLEAN]
    \cup [entry : {"main", "cli"}, command : {"Branches"}, fetch : {FALSE},
          timeout : {DefaultTimeout}, remote_status : {FALSE}]
    \cup [entry : {"cli"}, command : {"DirStatus"}, fetch : BOOLEAN,
          timeout : {DefaultTimeout}, remote_status : {FALSE}]

RECURSIVE Listings(_)
Listings(n) ==
    IF n = 0 THEN {<< >>}
    ELSE LET shorter == Listings(n - 1) IN
         shorter \cup
         {Append(l, [name |-> d, is_dir |-> b]) :
            l \in {s \in shorter : Len(s) = n - 1}, d \in Names, b \in BOOLEAN}

\* what read_dir can yield: at most MaxDirs entries, no name twice
DirListings ==
    {l \in Listings(MaxDirs) : \A i, j \in 1..Len(l) : l[i].name = l[j].name => i = j}

RECURSIVE only_dirs(_)
\* if path.is_dir() { dirs.push(path) }
only_dirs(l) ==
    IF l = << >> THEN << >>
    ELSE IF Head(l).is_dir THEN <<Head(l).name>> \o only_dirs(Tail(l))
    ELSE only_dirs(Tail(l))

NoTrace == [dir |-> 0, ev |-> << >>]
NotShown == [by |-> "none"]

Idle ==
    /\ pc = "start"
    /\ entries = << >>
    /\ dirs = << >>
    /\ order = << >>
    /\ fs = << >>
    /\ target = None
    /\ local = << >>
    /\ current_fetch_status = FALSE
    /\ status_results = << >>
    /\ child = "none"
    /\ trace = NoTrace
    /\ fetches = << >>
    /\ result = "pending"
    /\ ret = "pending"
    /\ out = << >>
    /\ write_err = "none"
    /\ exit = "running"

Init ==
    /\ cmd \in Clis
    /\ Idle
    /\ status = None
    /\ shown = NotShown

\* ------------------------------------------- get_multi_directory_status

\* the flag after a repository whose status was collected
next_fetch_status(repo_status, current) ==
    (IF repo_status.remote_status = None THEN TRUE
     ELSE repo_status.remote_status.val.refreshed) /\ current

\* the end of one loop iteration: res is what get_repo_state returned
Insert(d, res) ==
    /\ IF res.ok
       THEN /\ current_fetch_status' = next_fetch_status(res.val, current_fetch_status)
            /\ status_results' = (d :> res.val) @@ status_results
       ELSE /\ status_results' = (d :> broken_state("broken-head")) @@ status_results
            /\ UNCHANGED current_fetch_status
    /\ dirs' = Tail(dirs)
    /\ order' = Append(order, d)
    /\ pc' = "loop"

\* std::fs::read_dir and the collection of the subdirectories
ListDir ==
    /\ pc = "start"
    /\ cmd.command = "DirStatus"
    /\ \/ \E l \in DirListings :
            /\ entries' = l
            /\ dirs' = only_dirs(l)
            /\ current_fetch_status' = cmd.fetch
            /\ pc' = "loop"
            /\ UNCHANGED <<result, ret, exit>>
       \/ /\ result' = "Err"
          /\ ret' = "Err"
          /\ exit' = main_exit("Err")
          /\ pc' = "exited"
          /\ UNCHANGED <<entries, dirs, current_fetch_status>>
    /\ UNCHANGED <<cmd, order, fs, target, local, status_results, child, trace, fetches,
                   out, write_err, render_vars>>

\* one iteration of the loop over dirs, up to the spawn of `git fetch` when
\* one is launched, else to the end of the iteration
VisitDir ==
    /\ pc = "loop"
    /\ dirs # << >>
    /\ LET d == Head(dirs) IN
       \E e \in DirFacts :
         /\ fs' = (d :> e) @@ fs
         /\ IF ~gather_git_repo(e).ok
            THEN /\ dirs' = Tail(dirs)
                 /\ order' = Append(order, d)
                 /\ trace' = NoTrace
                 /\ UNCHANGED <<pc, current_fetch_status, status_results, child, fetches>>
            ELSE LET step == repo_state_prefix(e, current_fetch_status, TRUE) IN
                 IF step = "Err"
                 THEN /\ Insert(d, Err("Git2Error"))
                      /\ trace' = NoTrace
                      /\ UNCHANGED <<child, fetches>>
                 ELSE IF step = "NoFetch"
                 THEN /\ Insert(d, Ok(repo_state_value(e, TRUE, FALSE)))
                      /\ trace' = NoTrace
                      /\ UNCHANGED <<child, fetches>>
                 ELSE \/ /\ child' = "running"
                         /\ trace' = [dir |-> d, ev |-> <<"spawn">>]
                         /\ fetches' = (d :> [outcome |-> "running", ret |-> None]) @@ fetches
                         /\ pc' = "wait"
                         /\ UNCHANGED <<dirs, order, current_fetch_status, status_results>>
                      \/ /\ trace' = [dir |-> d, ev |-> <<"spawn_failed">>]
                         /\ fetches' = (d :> [outcome |-> "spawn_failed",
                                              ret |-> Err("IoError")]) @@ fetches
                         /\ Insert(d, Err("IoError"))
                         /\ UNCHANGED child
    /\ UNCHANGED <<cmd, entries, target, local, result, ret, out, write_err, exit, render_vars>>

\* the child's `git fetch` finishes on its own
ChildExits ==
    /\ pc \in {"wait", "kill"}
    /\ child = "running"
    /\ child' = "exited"
    /\ trace' = [trace EXCEPT !.ev = Append(@, "exit")]
    /\ UNCHANGED <<cmd, pc, entries, dirs, order, fs, target, local, current_fetch_status,
                   status_results, fetches, result, ret, out, write_err, exit, render_vars>>

\* what fetch_git_with_timeout returns when the child exited in time
fetch_returns_on_exit == Ok(TRUE)

\* a timeout handed on as an error
fetch_returns_on_timeout_err == Err("IoError")

\* what fetch_git_with_timeout returns after a timeout
fetch_returns_on_timeout == Ok(FALSE)

\* the rest of get_repo_state and of the loop iteration once
\* fetch_git_with_timeout has returned r
AfterFetch(d, outcome, r) ==
    /\ fetches' = [fetches EXCEPT ![d] = [outcome |-> outcome, ret |-> r]]
    /\ IF r.ok THEN Insert(d, Ok(repo_state_value(fs[d], TRUE, r.val)))
       ELSE Insert(d, r)

\* wait_timeout returns Some(status): the child exited within the timeout
WaitExited ==
    /\ pc = "wait"
    /\ child = "exited"
    /\ child' = "none"
    /\ trace' = [trace EXCEPT !.ev = Append(@, "reaped")]
    /\ AfterFetch(Head(dirs), "exited", fetch_returns_on_exit)
    /\ UNCHANGED <<cmd, entries, fs, target, local, result, ret, out, write_err, exit,
                   render_vars>>

\* wait_timeout returns None: the timeout elapsed with the child running
WaitTimedOut ==
    /\ pc = "wait"
    /\ child = "running"
    /\ trace' = [trace EXCEPT !.ev = Append(@, "timeout")]
    /\ pc' = "kill"
    /\ UNCHANGED <<cmd, entries, dirs, order, fs, target, local, current_fetch_status,
                   status_results, child, fetches, result, ret, out, write_err, exit,
                   render_vars>>

\* wait_timeout itself fails: the error is handed on and the Child dropped,
\* neither killed nor reaped
WaitFails ==
    /\ pc = "wait"
    /\ child' = "none"
    /\ trace' = [trace EXCEPT !.ev = Append(@, "wait_failed")]
    /\ AfterFetch(Head(dirs), "wait_failed", Err("IoError"))
    /\ UNCHANGED <<cmd, entries, fs, target, local, result, ret, out, write_err, exit,
                   render_vars>>

\* let _ = child.kill(): its failure on an already exited child is ignored
KillChild ==
    /\ pc = "kill"
    /\ child' = IF child = "running" THEN "killed" ELSE child
    /\ trace' = [trace EXCEPT !.ev = Append(@, "kill")]
    /\ pc' = "reap"
    /\ UNCHANGED <<cmd, entries, dirs, order, fs, target, local, current_fetch_status,
                   status_results, fetches, result, ret, out, write_err, exit, render_vars>>

\* let _ = child.wait(), and the return after the timeout
ReapChild ==
    /\ pc = "reap"
    /\ child' = "none"
    /\ trace' = [trace EXCEPT !.ev = Append(@, "reaped")]
    /\ AfterFetch(Head(dirs), "timed_out", fetch_returns_on_timeout)
    /\ UNCHANGED <<cmd, entries, fs, target, local, result, ret, out, write_err, exit,
                   render_vars>>

\* the end of the loop: None for an empty map
BatchReturns ==
    /\ pc = "loop"
    /\ dirs = << >>
    /\ result' = IF DOMAIN status_results = {} THEN "None" ELSE "Some"
    /\ pc' = "print"
    /\ UNCHANGED <<cmd, entries, dirs, order, fs, current_fetch_status, status_results,
                   child, trace, fetches, target, local, ret, out, write_err, exit,
                   render_vars>>

\* ------------------------------------------------------------- commands

\* println!: the line is written, or the process panics
Println(line, w) ==
    /\ write_err' = IF w = "ok" THEN "none" ELSE w
    /\ out' = IF w = "ok" THEN Append(out, line) ELSE out
    /\ ret' = IF w = "ok" THEN "Ok" ELSE "pending"
    /\ exit' = IF println_exit(w) = "running" THEN main_exit("Ok") ELSE println_exit(w)

\* the function returns r without having written anything
Returns(r) ==
    /\ ret' = r
    /\ exit' = main_exit(r)
    /\ UNCHANGED <<out, write_err>>

\* print_repo_table on what get_multi_directory_status returned, and the
\* return of dir_status
PrintRepoTable ==
    /\ pc = "print"
    /\ pc' = "exited"
    /\ IF result = "Some"
       THEN \E w \in WriteOutcomes :
               Println([kind |-> "repo_table", body |-> table_rows(status_results)], w)
       ELSE Returns("Ok")
    /\ UNCHANGED <<cmd, batch_vars, target, local, render_vars>>

\* the arguments get_prompt hands to get_repo_state beside remote_status
get_prompt_call == [fetch |-> FALSE, timeout_ms |-> 0]

\* cli.rs get_prompt
GetPrompt ==
    /\ pc = "start"
    /\ cmd.entry = "cli"
    /\ cmd.command = "Prompt"
    /\ pc' = "exited"
    /\ \E e \in DirFacts :
         /\ target' = Some(e)
         /\ IF ~gather_git_repo(e).ok THEN Returns("Ok") /\ UNCHANGED status
            ELSE IF repo_state_prefix(e, get_prompt_call.fetch, cmd.remote_status) = "Err"
            THEN Returns("Err") /\ UNCHANGED status
            ELSE /\ status' = repo_state_value(e, cmd.remote_status, FALSE)
                 /\ \E w \in WriteOutcomes :
                       Println([kind |-> "prompt", body |-> Display(status')], w)
    /\ UNCHANGED <<cmd, batch_vars, local, shown>>

\* cli.rs dump_branches
DumpBranches ==
    /\ pc = "start"
    /\ cmd.entry = "cli"
    /\ cmd.command = "Branches"
    /\ pc' = "exited"
    /\ \E e \in DirFacts :
         /\ target' = Some(e)
         /\ IF ~gather_git_repo(e).ok THEN Returns("Ok") /\ UNCHANGED local
            ELSE \/ Returns("Err") /\ UNCHANGED local
                 \/ \E l \in LocalBranches :
                      /\ local' = l
                      /\ IF get_branch_info(l) = None THEN Returns("Ok")
                         ELSE \E w \in WriteOutcomes :
                                 Println([kind |-> "branch_table",
                                          body |-> branch_rows(get_branch_info(l).val)], w)
    /\ UNCHANGED <<cmd, batch_vars, render_vars>>

\* core.rs gather_git_repo
core_gather_git_repo(e) ==
    IF e.git = "absent" THEN Err("Custom")
    ELSE IF e.git = "invalid" THEN Err("Git2Error")
    ELSE Ok(e)

\* core.rs get_repo_state: no remote status
core_get_repo_state(e) ==
    IF e.fault = "head" THEN Err("Git2Error")
    ELSE IF ~get_dirty(e).ok THEN Err("Git2Error")
    ELSE Ok(RepoStatus(get_branch_state(e), get_dirty(e).val, get_position(e),
                       e.head_oid, None))

\* main.rs with Command::Prompt
MainPrompt ==
    /\ pc = "start"
    /\ cmd.entry = "main"
    /\ cmd.command = "Prompt"
    /\ pc' = "exited"
    /\ \E e \in DirFacts :
         /\ target' = Some(e)
         /\ IF ~core_gather_git_repo(e).ok THEN Returns("Ok")
            ELSE IF ~core_get_repo_state(e).ok THEN Returns("Err")
            ELSE \E w \in WriteOutcomes :
                    Println([kind |-> "prompt",
                             body |-> core_Display(core_get_repo_state(e).val)], w)
    /\ UNCHANGED <<cmd, batch_vars, local, render_vars>>

\* console_dump: one safe_println per line; the write of line k + 1 meets w
ConsoleDump(lines, k, w) ==
    /\ write_err' = IF w = "ok" THEN "none" ELSE w
    /\ out' = IF w = "ok" THEN out \o lines ELSE out \o SubSeq(lines, 1, k)
    /\ ret' = IF w = "ok" THEN "Ok" ELSE "pending"
    /\ exit' = IF safe_println_exit(w) = "running" THEN main_exit("Ok")
               ELSE safe_println_exit(w)

\* main.rs with Command::Branches: core.rs dump_branches
MainBranches ==
    /\ pc = "start"
    /\ cmd.entry = "main"
    /\ cmd.command = "Branches"
    /\ pc' = "exited"
    /\ \E e \in DirFacts :
         /\ target' = Some(e)
         /\ IF ~core_gather_git_repo(e).ok THEN Returns("Ok") /\ UNCHANGED local
            ELSE \/ Returns("Err") /\ UNCHANGED local
                 \/ \E l \in LocalBranches :
                      /\ local' = l
                      /\ IF get_branch_info(l) = None THEN Returns("Ok")
                         ELSE LET lines ==
                                    [i \in 1..Len(get_branch_info(l).val) |->
                                        [kind |-> "branch_line",
                                         body |-> branch_lines(get_branch_info(l).val)[i]]]
                              IN  \E w \in WriteOutcomes, k \in 0..(Len(lines) - 1) :
                                     ConsoleDump(lines, k, w)
    /\ UNCHANGED <<cmd, batch_vars, render_vars>>

Next ==
    \/ ListDir
    \/ VisitDir
    \/ ChildExits
    \/ WaitExited
    \/ WaitTimedOut
    \/ WaitFails
    \/ KillChild
    \/ ReapChild
    \/ BatchReturns
    \/ PrintRepoTable
    \/ GetPrompt
    \/ DumpBranches
    \/ MainPrompt
    \/ MainBranches

Spec == Init /\ [][Next]_vars

\* ------------------------------------------------ the rendering functions

Counts == 0..MaxCount

AllPositions == {Position(a, b) : a \in Counts, b \in Counts}

AllOptPositions == {None} \cup {Some(p) : p \in AllPositions}

\* every RepoStatus with counts up to MaxCount
AllStatuses ==
    {RepoStatus(b, DirtyState(w, i), p, o, r) :
        b \in {Named("main"), Detached}, w \in Counts, i \in Counts,
        p \in AllOptPositions, o \in {ZeroOid, 1},
        r \in {None} \cup {Some(RemoteStatus(rp, f)) : rp \in AllOptPositions, f \in BOOLEAN}}

InitRender ==
    /\ cmd = [entry |-> "render"]
    /\ Idle
    /\ status \in AllStatuses
    /\ shown = NotShown

\* format!("{}", status) with primitives::RepoStatus
ShowInline ==
    /\ shown = NotShown
    /\ status # None
    /\ shown' = [by |-> "primitives", position |-> position_marker(status),
                 dirty |-> dirty_marker(status), line |-> Display(status)]
    /\ UNCHANGED <<cmd, pc, batch_vars, target, local, ret, out, write_err, exit, status>>

\* format!("{}", status) with core::RepoStatus
ShowLegacy ==
    /\ shown = NotShown
    /\ status # None
    /\ shown' = [by |-> "core", position |-> core_position(status),
                 dirty |-> core_dirty(status), line |-> core_Display(status)]
    /\ UNCHANGED <<cmd, pc, batch_vars, target, local, ret, out, write_err, exit, status>>

\* the row print_repo_table makes of it
ShowRow ==
    /\ shown = NotShown
    /\ status # None
    /\ shown' = [by |-> "table", row |-> table_row(1, status)]
    /\ UNCHANGED <<cmd, pc, batch_vars, target, local, ret, out, write_err, exit, status>>

NextRender ==
    \/ ShowInline
    \/ ShowLegacy
    \/ ShowRow

SpecRender == InitRender /\ [][NextRender]_vars

\* ------------------------------------------------------------ properties

Range(s) == {s[i] : i \in 1..Len(s)}

RECURSIVE Plain(_)
\* the text of a sequence of spans, colours dropped
Plain(spans) ==
    IF spans = << >> THEN << >> ELSE Head(spans).text \o Plain(Tail(spans))

\* a batch whose loop is under way or over
InBatch == cmd.command = "DirStatus" /\ pc # "start"

Fetching == pc \in {"wait", "kill", "reap"}

\* the directories looked at so far, the one whose fetch is under way last
Seen == IF Fetching THEN Append(order, Head(dirs)) ELSE order

\* a `git fetch` child was spawned for d
Launched(d) == d \in DOMAIN fetches /\ fetches[d].outcome # "spawn_failed"

\* d's `git fetch` child was still running when the timeout elapsed
TimedOut(d) == d \in DOMAIN fetches /\ fetches[d].outcome = "timed_out"

\* get_repo_state returned an error for the repository in d
Failed(d) ==
    \/ fs[d].fault # "none"
    \/ d \in DOMAIN fetches /\ fetches[d].outcome \in {"spawn_failed", "wait_failed"}

\* the repositories among the parent's entries
ReposListed ==
    {entries[k].name : k \in {i \in 1..Len(entries) :
        /\ entries[i].is_dir
        /\ entries[i].name \in DOMAIN fs
        /\ fs[entries[i].name].git = "repo"}}

\* C1: in a batch with fetch = true, once the fetch of a repository has timed
\* out no fetch child is spawned for any repository processed later, and every
\* later repository that has a remote status reports refreshed = false.
C1_NoFetchAfterTimeout ==
    (InBatch /\ cmd.fetch) =>
        \A i, j \in 1..Len(Seen) :
            (i < j /\ TimedOut(Seen[i])) =>
                /\ ~Launched(Seen[j])
                /\ (Seen[j] \in DOMAIN status_results
                    /\ status_results[Seen[j]].remote_status # None)
                   => ~status_results[Seen[j]].remote_status.val.refreshed

\* C2: a subdirectory that is a repository but whose status collection fails
\* gets the broken sentinel as its entry, the call returns no error, every
\* subdirectory is still processed, and every healthy sibling has its own
\* entry with its own commit id.
C2_BrokenSentinelKeepsSiblings ==
    InBatch =>
        /\ \A d \in Range(order) :
              fs[d].git = "repo" =>
                /\ d \in DOMAIN status_results
                /\ Failed(d) =>
                      status_results[d] =
                          [branch |-> [tag |-> "Named", name |-> "broken-head"],
                           dirty |-> [worktree |-> 0, index |-> 0],
                           position |-> None, head_oid |-> ZeroOid,
                           remote_status |-> None]
                /\ ~Failed(d) => status_results[d].head_oid = fs[d].head_oid
        /\ (\E d \in Range(order) : fs[d].git = "repo" /\ Failed(d)) => result # "Err"
        /\ result \in {"None", "Some"} =>
              \A k \in 1..Len(entries) : entries[k].is_dir => entries[k].name \in Range(order)

\* a batch that has returned, with a broken repository processed first and a
\* healthy sibling after it, both in the map
C2_Witness ==
    /\ InBatch
    /\ result = "Some"
    /\ Len(order) = 2
    /\ fs[order[1]].git = "repo" /\ Failed(order[1])
    /\ fs[order[2]].git = "repo" /\ ~Failed(order[2])
    /\ status_results[order[1]].head_oid = ZeroOid
    /\ status_results[order[2]].head_oid # ZeroOid

\* C3: get_multi_directory_status returns None exactly when no subdirectory
\* is a repository, else a map with exactly one entry per subdirectory that is
\* a repository; other entries of the parent give no entry and no error (an
\* error comes only from listing the parent, before any entry is looked at).
C3_NoneIffNoRepository ==
    /\ (InBatch /\ result \in {"None", "Some"}) =>
          /\ \A k \in 1..Len(entries) : entries[k].is_dir => entries[k].name \in DOMAIN fs
          /\ (result = "None") <=> (ReposListed = {})
          /\ DOMAIN status_results = ReposListed
    /\ result = "Err" => (entries = << >> /\ order = << >>)

\* a batch that returned a map of one repository, having skipped a
\* subdirectory that is none and an entry that is no directory or a second one
C3_Witness ==
    /\ InBatch
    /\ result = "Some"
    /\ Len(entries) = 2
    /\ Cardinality(DOMAIN status_results) = 1
    /\ \E d \in DOMAIN fs : fs[d].git # "repo"

\* C4: when the fetch child is still running as the timeout elapses, it is
\* killed, then reaped, and fetch_git_with_timeout returns Ok(false); when it
\* exited in time the return is Ok(true); a timeout never leaves the
\* repository with the broken sentinel that a failed get_repo_state gives.
C4_TimeoutIsNotAnError ==
    \A d \in DOMAIN fetches :
        /\ TimedOut(d) =>
              /\ fetches[d].ret.ok
              /\ fetches[d].ret.val = FALSE
              /\ d \in DOMAIN status_results
              /\ status_results[d].head_oid # ZeroOid
              /\ trace.dir = d =>
                    /\ trace.ev \in {<<"spawn", "timeout", "kill", "reaped">>,
                                     <<"spawn", "timeout", "exit", "kill", "reaped">>}
                    /\ child = "none"
        /\ fetches[d].outcome = "exited" =>
              /\ fetches[d].ret.ok
              /\ fetches[d].ret.val = TRUE
              /\ trace.dir = d => trace.ev = <<"spawn", "exit", "reaped">>
        /\ (trace.dir = d /\ ~Fetching /\ trace.ev # << >>) =>
              (TimedOut(d) <=> \E i \in 1..Len(trace.ev) : trace.ev[i] = "timeout")

\* a fetch that timed out, its child killed and reaped, its repository in the
\* map with a remote status that is not refreshed
C4_Witness ==
    \E d \in DOMAIN fetches :
        /\ TimedOut(d)
        /\ trace = [dir |-> d, ev |-> <<"spawn", "timeout", "kill", "reaped">>]
        /\ d \in DOMAIN status_results
        /\ status_results[d].remote_status # None
        /\ ~status_results[d].remote_status.val.refreshed

\* C5: every RepoStatus in the map has position None exactly when HEAD is
\* detached or the current branch has no upstream.
C5_PositionNoneIffNoUpstream ==
    \A d \in DOMAIN status_results :
        (status_results[d].position = None) <=> (fs[d].detached \/ fs[d].upstream = None)

\* C5 as amended: every RepoStatus that get_repo_state returned has position
\* None exactly when HEAD is detached or the current branch has no upstream,
\* and Some of that upstream's (ahead, behind) else; the broken sentinel that
\* stands for a failed get_repo_state has position None whatever the upstream.
C5_PositionOfCollectedStatus ==
    \A d \in DOMAIN status_results :
        IF Failed(d) THEN status_results[d].position = None
        ELSE /\ (status_results[d].position = None)
                    <=> (fs[d].detached \/ fs[d].upstream = None)
             /\ status_results[d].position # None
                    => status_results[d].position = fs[d].upstream

\* the map holds a collected status with a position, one of a branch without
\* upstream, and the sentinel of a failed repository whose branch has one
C5_Witness ==
    /\ \E d \in DOMAIN status_results :
          /\ ~Failed(d)
          /\ status_results[d].position = Some(Position(1, 2))
    /\ \E d \in DOMAIN status_results :
          /\ Failed(d)
          /\ fs[d].upstream # None

\* C6: prompt and branches on a path with no .git directory in it end in
\* success, with nothing written and no error returned.
C6_NotARepositoryIsSilent ==
    (/\ pc = "exited"
     /\ cmd.command \in {"Prompt", "Branches"}
     /\ target # None
     /\ target.val.git = "absent")
    => (exit = "success" /\ ret = "Ok" /\ out = << >> /\ write_err = "none")

\* the branches command of cli.rs has ended on a path with no .git directory
C6_Witness ==
    /\ pc = "exited"
    /\ cmd.command = "Branches"
    /\ cmd.entry = "cli"
    /\ target # None
    /\ target.val.git = "absent"
    /\ exit = "success"

\* C7: prompt run with --fetch and --remote-status on a repository whose HEAD
\* is a branch attempts a `git fetch` before the remote position is computed.
C7_PromptHonoursFetch ==
    (/\ pc = "exited"
     /\ cmd.entry = "cli"
     /\ cmd.command = "Prompt"
     /\ cmd.fetch
     /\ cmd.remote_status
     /\ target # None
     /\ target.val.git = "repo"
     /\ target.val.fault = "none"
     /\ ~target.val.detached)
    => trace.ev # << >>

\* C8: every write to standard output that meets a broken pipe ends the
\* process silently and successfully, and any other write error is fatal.
C8_BrokenPipeIsSilent ==
    /\ write_err = "BrokenPipe" => exit = "success"
    /\ write_err = "Other" => exit = "panic"

\* the text the dirty marker is to have for a RepoStatus
ClaimedDirtyText(st) ==
    IF st.dirty.worktree = 0 /\ st.dirty.index = 0 THEN <<Tok("check")>>
    ELSE <<Tok("dot")>>
         \o (IF st.dirty.worktree > 0 THEN <<Num(st.dirty.worktree)>> ELSE << >>)
         \o (IF st.dirty.index > 0 THEN <<Tok("+"), Num(st.dirty.index)>> ELSE << >>)

\* C9: the inline dirty marker is the clean glyph when both counts are zero,
\* else the dot, the worktree count if nonzero, and '+' with the index count
\* if nonzero.
C9_DirtyMarker ==
    shown.by \in {"primitives", "core"} => Plain(shown.dirty) = ClaimedDirtyText(status)

\* the (ahead, behind) a position shows: none shows no divergence
Shown(position) == IF position = None THEN Position(0, 0) ELSE position.val

\* a marker holds the bracketed remote markers
HasBrackets(spans) ==
    \E i \in 1..Len(spans) : \E k \in 1..Len(spans[i].text) : spans[i].text[k] = Tok("[")

\* C10: position_marker appends the bracketed remote markers exactly when the
\* RepoStatus has a remote comparison whose (ahead, behind) differs from that
\* of the local position.
C10_RemoteMarkersWhenDifferent ==
    shown.by = "primitives" =>
        (HasBrackets(shown.position) <=>
            (/\ status.remote_status # None
             /\ Shown(status.remote_status.val.position) # Shown(status.position)))

\* the local position of a RepoStatus shows divergence
Diverged(st) ==
    st.position # None /\ (st.position.val.ahead > 0 \/ st.position.val.behind > 0)

\* C11: in the table the name and branch cells of a row are white for a
\* repository with no dirty files, no local divergence and a non-zero commit
\* id, yellow for every repository with local divergence, and magenta for
\* every repository with a zero commit id.
C11_RowColourEncodesSeverity ==
    shown.by = "table" =>
        /\ shown.row.name.fg = shown.row.branch.fg
        /\ (/\ status.dirty.worktree + status.dirty.index = 0
            /\ ~Diverged(status)
            /\ status.head_oid # ZeroOid) => shown.row.name.fg = "white"
        /\ Diverged(status) => shown.row.name.fg = "yellow"
        /\ status.head_oid = ZeroOid => shown.row.name.fg = "magenta"

\* the Branches command got as far as listing the local branches
BranchesListed ==
    cmd.command = "Branches" /\ pc = "exited" /\ (local # << >> \/ ret = "Ok")

\* the (name, commit time) pairs standard output holds, in printed order
PrintedBranches ==
    IF out = << >> THEN << >>
    ELSE IF out[1].kind = "branch_table"
    THEN [i \in 1..Len(out[1].body) |->
            [name |-> out[1].body[i].name.text[1].n,
             commit_time |-> out[1].body[i].iso_date.text[1].n]]
    ELSE [i \in 1..Len(out) |->
            [name |-> out[i].body[2].text[1].n,
             commit_time |-> out[i].body[1].text[1].n]]

\* s is non-increasing in commit_time
MostRecentFirst(s) ==
    \A i, j \in 1..Len(s) : i < j => s[i].commit_time >= s[j].commit_time

\* C12: get_branch_info returns None when there are no local branches, and
\* otherwise a sequence holding exactly one BranchInfo per local branch, with
\* that branch's commit time, non-increasing in commit_time; what the branches
\* command prints keeps that order.
C12_BranchesMostRecentFirst ==
    BranchesListed /\ target # None /\ target.val.git = "repo" =>
        LET r == get_branch_info(local) IN
        /\ r = None <=> local = << >>
        /\ r # None =>
              /\ Len(r.val) = Len(local)
              /\ \A k \in 1..Len(local) :
                    \E i \in 1..Len(r.val) :
                        /\ r.val[i].name = local[k].name
                        /\ r.val[i].commit_time = local[k].commit_time
              /\ MostRecentFirst(r.val)
        /\ MostRecentFirst(PrintedBranches)
        /\ ret = "Ok" =>
              /\ Len(PrintedBranches) = Len(local)
              /\ Range(PrintedBranches) = Range(local)

\* two branches enumerated oldest first have been printed
C12_Witness ==
    /\ BranchesListed
    /\ Len(local) = 2
    /\ local[1].commit_time < local[2].commit_time
    /\ ret = "Ok"
    /\ Len(PrintedBranches) = 2
    /\ PrintedBranches[1].name = local[2].name

\* the status of the repository with facts e when no fetch is asked for: a
\* function of the directory tree alone
StaticStatus(e) ==
    IF repo_state_prefix(e, FALSE, TRUE) = "Err" THEN broken_state("broken-head")
    ELSE repo_state_value(e, TRUE, FALSE)

\* dir-status without fetch has printed its table
StaticTablePrinted ==
    /\ cmd.command = "DirStatus"
    /\ ~cmd.fetch
    /\ pc = "exited"
    /\ out # << >>

\* C13: with fetch = false the table dir-status prints is a function of the
\* directory tree alone, whatever order read_dir lists the subdirectories in:
\* one row per repository, names ascending, each row made from the name and
\* the repository's own state.
C13_TableIndependentOfTraversal ==
    StaticTablePrinted =>
        LET body == out[1].body IN
        /\ Len(out) = 1
        /\ Len(body) = Cardinality(ReposListed)
        /\ \A i \in 1..Len(body) :
              \E d \in ReposListed : body[i] = table_row(d, StaticStatus(fs[d]))
        /\ \A i, j \in 1..Len(body) :
              i < j => body[i].name.text[1].n < body[j].name.text[1].n

\* two repositories listed against the order of their names, table printed
C13_Witness ==
    /\ StaticTablePrinted
    /\ Len(entries) = 2
    /\ entries[1].name > entries[2].name
    /\ order = <<entries[1].name, entries[2].name>>
    /\ Cardinality(ReposListed) = 2
    /\ Len(out[1].body) = 2
    /\ fs[entries[1].name] # fs[entries[2].name]

\* C14: the running fetch flag starts as the caller's fetch argument; after
\* each repository's fetch attempt it is (that fetch completed within the
\* timeout) AND (the flag before), for every attempt that ended with the
\* child's exit or with the timeout; within a batch it never goes from false
\* back to true.
C14_FlagIsConjunctionOfCompletedFetches ==
    [][/\ (pc = "start" /\ pc' = "loop") => current_fetch_status' = cmd.fetch
       /\ (Fetching /\ pc' = "loop"
             /\ fetches'[Head(dirs)].outcome \in {"exited", "timed_out"}) =>
             current_fetch_status' =
                 (fetches'[Head(dirs)].outcome = "exited" /\ current_fetch_status)
       /\ (pc # "start" /\ ~current_fetch_status) => ~current_fetch_status']_vars

\* the remote status get_repo_state is to yield for a repository with facts
\* e, remote status requested or not, its fetch (if any) having returned
\* refreshed
ClaimedRemoteStatus(e, requested, refreshed) ==
    IF ~requested \/ e.detached \/ e.remote = None THEN None
    ELSE Some(RemoteStatus(Some(e.remote.val), refreshed))

\* the `git fetch` child of d exited before the timeout
Exited(d) == d \in DOMAIN fetches /\ fetches[d].outcome = "exited"

\* C15: get_repo_state yields remote_status None, and no error, when remote
\* status is not requested, HEAD is detached or refs/remotes/origin/<branch>
\* does not exist; in every other successful case it yields Some of the
\* (ahead, behind) against that ref with refreshed the outcome of the fetch,
\* false when no fetch was made. An error comes only from a failed query or a
\* failed fetch.
C15_RemoteStatusOfRepoState ==
    /\ InBatch =>
          \A d \in Range(order) :
              (fs[d].git = "repo" /\ ~Failed(d)) =>
                  /\ status_results[d].head_oid # ZeroOid
                  /\ status_results[d].remote_status
                        = ClaimedRemoteStatus(fs[d], TRUE, Exited(d))
    /\ (cmd.command = "Prompt" /\ cmd.entry = "cli" /\ pc = "exited") =>
          /\ (target.val.git = "repo" /\ target.val.fault = "none") => ret # "Err"
          /\ status # None =>
                status.remote_status
                    = ClaimedRemoteStatus(target.val, cmd.remote_status, FALSE)

\* a batch with one repository whose origin ref is missing after a fetch that
\* exited, and one whose remote status was refreshed
C15_Witness ==
    /\ InBatch
    /\ \E d1, d2 \in Range(order) :
          /\ Exited(d1) /\ fs[d1].remote = None /\ ~fs[d1].detached
          /\ status_results[d1].remote_status = None
          /\ status_results[d1].head_oid # ZeroOid
          /\ Exited(d2) /\ fs[d2].remote # None
          /\ status_results[d2].remote_status # None
          /\ status_results[d2].remote_status.val.refreshed

\* a RepoStatus whose remote status says refreshed
Refreshed(st) == st.remote_status # None /\ st.remote_status.val.refreshed

\* C16: `git fetch` is launched for a repository only if the fetch argument
\* passed for it is true, remote status is requested and HEAD is a branch; a
\* RepoStatus that says refreshed comes from a repository whose fetch was
\* launched and exited before the timeout; a batch with fetch = false
\* launches no fetch and reports nothing refreshed; prompt launches none.
C16_FetchOnlyWhenAsked ==
    /\ cmd.command = "DirStatus" =>
          /\ \A d \in DOMAIN fetches :
                cmd.fetch /\ fs[d].git = "repo" /\ ~fs[d].detached
          /\ Fetching =>
                /\ current_fetch_status
                /\ Head(dirs) \in DOMAIN fetches
          /\ child # "none" => Fetching
          /\ \A d \in DOMAIN status_results :
                Refreshed(status_results[d]) => Launched(d) /\ Exited(d)
          /\ ~cmd.fetch =>
                /\ fetches = << >>
                /\ \A d \in DOMAIN status_results : ~Refreshed(status_results[d])
    /\ cmd.command # "DirStatus" =>
          /\ child = "none"
          /\ fetches = << >>
          /\ status # None => ~Refreshed(status)

\* a batch with fetch = true: one repository refreshed by a fetch that exited,
\* and one on a detached HEAD for which none was launched
C16_Witness ==
    /\ cmd.command = "DirStatus"
    /\ cmd.fetch
    /\ pc = "exited"
    /\ \E d1, d2 \in Range(order) :
          /\ Exited(d1)
          /\ Refreshed(status_results[d1])
          /\ fs[d2].git = "repo" /\ fs[d2].detached /\ fs[d2].fault = "none"
          /\ d2 \notin DOMAIN fetches
          /\ ~Refreshed(status_results[d2])

====
